---- MODULE Spec2Model ----
(***************************************************************************)
(* Roommate matching: the rule-based compatibility scorer                  *)
(* (compatibility_agent.py), the profile normalizers and the profile       *)
(* reader (profile_reader.py) and the agent runners                        *)
(* (utils/agent_runners.py).                                               *)
(*                                                                         *)
(* Python values.  An Optional value is a sequence of length 0 or 1:      *)
(* None is <<>> and the value x is <<x>>.  A str is the sequence of its   *)
(* characters, so that "in" (substring search) and lower() are computed,  *)
(* not assumed.  dict.get(k) of an absent key is None, as in Python.      *)
(***************************************************************************)
EXTENDS Integers, Sequences, FiniteSets, TLC

VARIABLES
    profile_a,      \* score_compatibility: first argument
    profile_b,      \* score_compatibility: second argument
    resp,           \* score_compatibility: what runner.run handed back
    result,         \* score_compatibility: what the call produced
    value,          \* normalize_*: the argument
    category,       \* which normalizer is applied to value
    normalized,     \* normalize_*: what the call produced
    profile_id,     \* extract_structured_profile: the profile_id argument
    agent_run,      \* extract_structured_profile: what runner.run handed back
    extracted,      \* extract_structured_profile: what the call produced
    data_json,      \* run_profile_reader: the content of data/data.json
    raw_profiles,   \* run_profile_reader: the raw profiles being processed
    reader_i,       \* run_profile_reader: index of the next raw profile
    structured_profiles,  \* run_profile_reader: the list built so far
    reader_pc,      \* run_profile_reader: where the call is
    reader_returned,      \* run_profile_reader: the returned list, once returned
    profiles_datas_json,  \* run_profile_reader: the content of the output file
    clock,          \* the wall clock time.time() reads, in ticks
    file_path,      \* parse_single_profile: each invocation's uploaded file
    parse_pc,       \* parse_single_profile: where each invocation is
    parse_profile_id,     \* parse_single_profile: each invocation's profile_id
    parse_outcome,  \* parse_single_profile: what each invocation produced
    profiles_json,  \* score_all_combinations: the content of data/profiles.json
    caller,         \* who calls score_all_combinations
    batch_pc,       \* score_all_combinations: where the call is
    batch_outcome,  \* score_all_combinations: what the call produced
    caller_pc,      \* the caller: where it is
    caller_got,     \* run_all_compatibility_combinations: the list it returned
    printed,        \* __main__: the results printed, in order
    infer_sleep,    \* infer_lifestyle: the sleep_schedule argument
    infer_noise,    \* infer_lifestyle: the noise_tolerance argument
    infer_security, \* infer_guests_policy: the security_requirement argument
    inferred,       \* infer_lifestyle / infer_guests_policy: what the call produced
    pipeline_pc,    \* run_full_pipeline: where the call is
    compatibility,  \* run_full_pipeline: what run_compatibility_agent returned
    red_flags,      \* run_full_pipeline: what run_red_flag_agent returned
    advice,         \* run_full_pipeline: what run_wingman_agent returned
    pipeline_runs,  \* what the calls of run_full_pipeline made so far returned
    uploads_dir,    \* the uploads directory: path -> who wrote the file, in order
    session_state,  \* st.session_state of each browser session
    upload_pc,      \* show_upload_page: where each session's script run is
    uploaded_file,  \* show_upload_page: the file each session is uploading
    dest_path,      \* show_upload_page: each session's dest_path
    upload_idx,     \* show_upload_page: each session's idx
    page_outcome,   \* what the page each session visited last ended in
    uploads_made    \* how many uploads each session has started

scoreVars == <<profile_a, profile_b, resp, result>>
normVars == <<value, category, normalized>>
extractVars == <<profile_id, agent_run, extracted>>
readerVars == <<data_json, raw_profiles, reader_i, structured_profiles, reader_pc,
                reader_returned, profiles_datas_json>>
parseVars == <<clock, file_path, parse_pc, parse_profile_id, parse_outcome>>
batchVars == <<profiles_json, caller, batch_pc, batch_outcome, caller_pc, caller_got,
               printed>>
inferVars == <<infer_sleep, infer_noise, infer_security, inferred>>
pipelineVars == <<pipeline_pc, compatibility, red_flags, advice, pipeline_runs>>
uploadVars == <<uploads_dir, session_state, upload_pc, uploaded_file, dest_path,
                upload_idx, page_outcome, uploads_made>>
vars == <<scoreVars, normVars, extractVars, readerVars, parseVars, batchVars,
          inferVars, pipelineVars, uploadVars>>

----------------------------------------------------------------------------
(* Python values *)

None == <<>>
Some(x) == <<x>>
Val(o) == o[1]

\* bool(o) of an Optional[int]: None and 0 are falsy
TruthyInt(o) == o # None /\ Val(o) # 0
TruthyStr_none_only(o) == o # None
\* bool(o) of an Optional[str]: None and "" are falsy
TruthyStr(o) == o # None /\ Val(o) # <<>>

Abs(x) == IF x < 0 THEN -x ELSE x
Max(x, y) == IF x >= y THEN x ELSE y
Min(x, y) == IF x <= y THEN x ELSE y

\* A dict is a function from its keys; {} has no keys
EmptyDict == [k \in {} |-> None]
\* d.get(k): None for an absent key
Get(d, k) == IF k \in DOMAIN d THEN d[k] ELSE None
\* d[k] = v
Put(d, k, v) == [x \in (DOMAIN d) \cup {k} |-> IF x = k THEN v ELSE d[x]]

\* s.lower(), character by character
LowerChar(c) ==
    CASE c = "A" -> "a" [] c = "B" -> "b" [] c = "C" -> "c" [] c = "D" -> "d"
      [] c = "E" -> "e" [] c = "F" -> "f" [] c = "G" -> "g" [] c = "H" -> "h"
      [] c = "I" -> "i" [] c = "J" -> "j" [] c = "K" -> "k" [] c = "L" -> "l"
      [] c = "M" -> "m" [] c = "N" -> "n" [] c = "O" -> "o" [] c = "P" -> "p"
      [] c = "Q" -> "q" [] c = "R" -> "r" [] c = "S" -> "s" [] c = "T" -> "t"
      [] c = "U" -> "u" [] c = "V" -> "v" [] c = "W" -> "w" [] c = "X" -> "x"
      [] c = "Y" -> "y" [] c = "Z" -> "z" [] OTHER -> c
Lower(s) == [i \in 1..Len(s) |-> LowerChar(s[i])]

\* "kw in s": kw occurs in s as a contiguous substring
Contains(s, kw) ==
    \E i \in 0..(Len(s) - Len(kw)) : SubSeq(s, i + 1, i + Len(kw)) = kw

----------------------------------------------------------------------------
(* String literals of compatibility_agent.py *)

s_night_owl == <<"n","i","g","h","t","_","o","w","l">>
s_early     == <<"e","a","r","l","y">>
s_flexible  == <<"f","l","e","x","i","b","l","e">>
s_normal    == <<"n","o","r","m","a","l">>
s_high      == <<"h","i","g","h">>
s_medium    == <<"m","e","d","i","u","m">>
s_low       == <<"l","o","w">>
s_female_only_high_security ==
    <<"f","e","m","a","l","e","_","o","n","l","y","_",
      "h","i","g","h","_","s","e","c","u","r","i","t","y">>
s_flexible_mixed_housing_ok ==
    <<"f","l","e","x","i","b","l","e","_","m","i","x","e","d","_",
      "h","o","u","s","i","n","g","_","o","k">>
s_gated     == <<"G","a","t","e","d">>

----------------------------------------------------------------------------
(* compatibility_agent.py: infer_lifestyle, infer_guests_policy *)

infer_lifestyle_quiet_first(sleep_schedule, noise_tolerance) ==
    IF ~TruthyStr(sleep_schedule) \/ ~TruthyStr(noise_tolerance) THEN None
    ELSE IF Contains(Lower(Val(sleep_schedule)), s_early)
            \/ Contains(Lower(Val(noise_tolerance)), s_low)
         THEN Some("quiet")
    ELSE IF Contains(Lower(Val(sleep_schedule)), s_night_owl)
            \/ Contains(Lower(Val(noise_tolerance)), s_high)
         THEN Some("social")
    ELSE Some("relaxed")

infer_lifestyle(sleep_schedule, noise_tolerance) ==
    IF ~TruthyStr(sleep_schedule) \/ ~TruthyStr(noise_tolerance) THEN None
    ELSE IF Contains(Lower(Val(sleep_schedule)), s_night_owl)
            \/ Contains(Lower(Val(noise_tolerance)), s_high)
         THEN Some("social")
    ELSE IF Contains(Lower(Val(sleep_schedule)), s_early)
            \/ Contains(Lower(Val(noise_tolerance)), s_low)
         THEN Some("quiet")
    ELSE Some("relaxed")

infer_guests_policy(security_requirement) ==
    IF ~TruthyStr(security_requirement) THEN None
    ELSE IF Contains(Lower(Val(security_requirement)), s_female_only_high_security)
         THEN Some("no_overnight_guests")
    ELSE IF Contains(Lower(Val(security_requirement)), s_flexible_mixed_housing_ok)
         THEN Some("open_to_guests")
    ELSE Some("moderate")

----------------------------------------------------------------------------
(* profile_reader.py: the normalizers (lines 90-125) *)

s_night == <<"n","i","g","h","t">>
s_late == <<"l","a","t","e">>
s_raat == <<"r","a","a","t">>
s_1am == <<"1","a","m">>
s_subah == <<"s","u","b","a","h">>
s_riser == <<"r","i","s","e","r">>
s_chill == <<"c","h","i","l","l">>
s_tidy == <<"t","i","d","y">>
s_saaf == <<"s","a","a","f">>
s_messy == <<"m","e","s","s","y">>
s_ganda == <<"g","a","n","d","a">>
s_quiet == <<"q","u","i","e","t">>
s_shor_kam == <<"s","h","o","r"," ","k","a","m">>
s_moderate == <<"m","o","d","e","r","a","t","e">>
s_average == <<"a","v","e","r","a","g","e">>
s_loud == <<"l","o","u","d">>
s_shor_zyada == <<"s","h","o","r"," ","z","y","a","d","a">>

\* normalize_sleep_schedule(value)
normalize_sleep_schedule(v) ==
    IF ~TruthyStr(v) THEN None
    ELSE LET w == Lower(Val(v))
         IN  IF Contains(w, s_night) \/ Contains(w, s_late) \/ Contains(w, s_raat)
                \/ Contains(w, s_1am)
             THEN Some(s_night_owl)
             ELSE IF Contains(w, s_early) \/ Contains(w, s_subah) \/ Contains(w, s_riser)
             THEN Some(s_early)
             ELSE IF Contains(w, s_flexible) \/ Contains(w, s_chill)
             THEN Some(s_flexible)
             ELSE Some(s_normal)

\* normalize_cleanliness(value)
normalize_cleanliness(v) ==
    IF ~TruthyStr(v) THEN None
    ELSE LET w == Lower(Val(v))
         IN  IF Contains(w, s_tidy) \/ Contains(w, s_saaf)
             THEN Some(s_high)
             ELSE IF Contains(w, s_messy) \/ Contains(w, s_ganda)
             THEN Some(s_low)
             ELSE Some(s_medium)

\* normalize_noise_tolerance(value)
normalize_noise_tolerance(v) ==
    IF ~TruthyStr(v) THEN None
    ELSE LET w == Lower(Val(v))
         IN  IF Contains(w, s_quiet) \/ Contains(w, s_shor_kam)
             THEN Some(s_low)
             ELSE IF Contains(w, s_moderate) \/ Contains(w, s_average)
             THEN Some(s_medium)
             ELSE IF Contains(w, s_loud) \/ Contains(w, s_shor_zyada)
                     \/ Contains(w, s_high)
             THEN Some(s_high)
             ELSE Some(s_medium)

Categories == {"sleep_schedule", "cleanliness", "noise_tolerance"}

----------------------------------------------------------------------------
(* The other copies of the normalizers *)

s_gandey == <<"g","a","n","d","e","y">>

\* tools/profile_proccesor.py: normalize_sleep_schedule (lines 8-19)
tools_normalize_sleep_schedule(v) ==
    IF ~TruthyStr(v) THEN None
    ELSE LET w == Lower(Val(v))
         IN  IF Contains(w, s_night) \/ Contains(w, s_late) \/ Contains(w, s_1am)
             THEN Some(s_night_owl)
             ELSE IF Contains(w, s_early) \/ Contains(w, s_riser)
             THEN Some(s_early)
             ELSE IF Contains(w, s_flexible) \/ Contains(w, s_chill)
             THEN Some(s_flexible)
             ELSE Some(s_normal)

\* tools/profile_proccesor.py: normalize_cleanliness (lines 21-30)
tools_normalize_cleanliness(v) ==
    IF ~TruthyStr(v) THEN None
    ELSE LET w == Lower(Val(v))
         IN  IF Contains(w, s_tidy) \/ Contains(w, s_saaf)
             THEN Some(s_high)
             ELSE IF Contains(w, s_messy) \/ Contains(w, s_gandey)
             THEN Some(s_low)
             ELSE Some(s_medium)

\* tools/profile_proccesor.py: normalize_noise_tolerance (lines 32-43)
tools_normalize_noise_tolerance(v) ==
    IF ~TruthyStr(v) THEN None
    ELSE LET w == Lower(Val(v))
         IN  IF Contains(w, s_quiet)
             THEN Some(s_low)
             ELSE IF Contains(w, s_moderate) \/ Contains(w, s_average)
             THEN Some(s_medium)
             ELSE IF Contains(w, s_loud) \/ Contains(w, s_high)
             THEN Some(s_high)
             ELSE Some(s_medium)

\* agents_workflow/profile_reader_agent.py: normalize_sleep_schedule (lines 149-160)
workflow_normalize_sleep_schedule(v) ==
    IF ~TruthyStr(v) THEN None
    ELSE LET w == Lower(Val(v))
         IN  IF Contains(w, s_night) \/ Contains(w, s_late) \/ Contains(w, s_1am)
             THEN Some(s_night_owl)
             ELSE IF Contains(w, s_early) \/ Contains(w, s_riser)
             THEN Some(s_early)
             ELSE IF Contains(w, s_flexible) \/ Contains(w, s_chill)
             THEN Some(s_flexible)
             ELSE Some(s_normal)

\* agents_workflow/profile_reader_agent.py: normalize_cleanliness (lines 162-171)
workflow_normalize_cleanliness(v) ==
    IF ~TruthyStr(v) THEN None
    ELSE LET w == Lower(Val(v))
         IN  IF Contains(w, s_tidy) \/ Contains(w, s_saaf)
             THEN Some(s_high)
             ELSE IF Contains(w, s_messy) \/ Contains(w, s_gandey)
             THEN Some(s_low)
             ELSE Some(s_medium)

\* agents_workflow/profile_reader_agent.py: normalize_noise_tolerance (lines 173-184)
workflow_normalize_noise_tolerance(v) ==
    IF ~TruthyStr(v) THEN None
    ELSE LET w == Lower(Val(v))
         IN  IF Contains(w, s_quiet)
             THEN Some(s_low)
             ELSE IF Contains(w, s_moderate) \/ Contains(w, s_average)
             THEN Some(s_medium)
             ELSE IF Contains(w, s_loud) \/ Contains(w, s_high)
             THEN Some(s_high)
             ELSE Some(s_medium)

\* the modules that define normalize_sleep_schedule, normalize_cleanliness and
\* normalize_noise_tolerance
NormalizerCopies == {"profile_reader", "tools", "agents_workflow"}

\* the normalizer of a category
normalize(v, c) ==
    CASE c = "sleep_schedule"  -> normalize_sleep_schedule(v)
      [] c = "cleanliness"     -> normalize_cleanliness(v)
      [] c = "noise_tolerance" -> normalize_noise_tolerance(v)

\* the normalizer of category c as the module named copy defines it
normalize_in(copy, v, c) ==
    CASE copy = "profile_reader" -> normalize(v, c)
      [] copy = "tools" ->
            (CASE c = "sleep_schedule"  -> tools_normalize_sleep_schedule(v)
               [] c = "cleanliness"     -> tools_normalize_cleanliness(v)
               [] c = "noise_tolerance" -> tools_normalize_noise_tolerance(v))
      [] copy = "agents_workflow" ->
            (CASE c = "sleep_schedule"  -> workflow_normalize_sleep_schedule(v)
               [] c = "cleanliness"     -> workflow_normalize_cleanliness(v)
               [] c = "noise_tolerance" -> workflow_normalize_noise_tolerance(v))

\* the canonical values of a category (the agent's output vocabulary,
\* profile_reader.py lines 68-70)
Canonical(c) ==
    CASE c = "sleep_schedule"  -> {s_early, s_normal, s_night_owl, s_flexible}
      [] c = "cleanliness"     -> {s_high, s_medium, s_low}
      [] c = "noise_tolerance" -> {s_low, s_medium, s_high}

----------------------------------------------------------------------------
(* profile_reader.py: extract_structured_profile (lines 154-191) *)

\* lines 183-185 on an int budget n (ProfileSchema.budget_PKR is Optional[int]):
\* str(n) with "PKR" and "," removed and stripped is the decimal text of n, which
\* isdigit() accepts exactly when it has no sign, and int() of it is n again.
convert_budget(budget) ==
    IF TruthyInt(budget)
    THEN IF Val(budget) >= 0 THEN budget ELSE None
    ELSE budget

\* lines 178-180: the three categorical fields are normalized in place
normalize_fields(d) ==
    Put(Put(Put(d,
        "sleep_schedule", normalize_sleep_schedule(Get(d, "sleep_schedule"))),
        "cleanliness", normalize_cleanliness(Get(d, "cleanliness"))),
        "noise_tolerance", normalize_noise_tolerance(Get(d, "noise_tolerance")))

\* run is what runner.run gave: an output (the dumped ProfileSchema), an object
\* with no output attribute, or an exception; every exception is caught and
\* answered with {} (lines 189-191)
extract_structured_profile(pid, run) ==
    IF run.kind = "raise" THEN EmptyDict
    ELSE LET dumped == IF run.kind = "output" THEN run.output ELSE EmptyDict
             with_id == Put(dumped, "id", pid)
             normal  == normalize_fields(with_id)
         IN  IF TruthyInt(Get(normal, "budget_PKR"))
             THEN Put(normal, "budget_PKR", convert_budget(Get(normal, "budget_PKR")))
             ELSE normal

----------------------------------------------------------------------------
(* profile_reader.py: run_profile_reader (lines 194-246) *)

BatchLimit == 10

\* raw_profiles[:10]
Take(list, n) == SubSeq(list, 1, Min(Len(list), n))

\* bool(v) of the value stored under key
TruthyAt(key, v) == IF key = "budget_PKR" THEN TruthyInt(v) ELSE TruthyStr(v)

\* lines 212-221; city stands for city, area, study_habits and food_pref
fallback_mapping(profile_data) ==
    [city            |-> Get(profile_data, "city"),
     budget_PKR      |-> Get(profile_data, "budget_PKR"),
     sleep_schedule  |-> normalize_sleep_schedule(Get(profile_data, "sleep_schedule")),
     cleanliness     |-> normalize_cleanliness(Get(profile_data, "cleanliness")),
     noise_tolerance |-> normalize_noise_tolerance(Get(profile_data, "noise_tolerance"))]

\* lines 222-224: a fallback value fills a key whose value is falsy or absent
apply_fallback(profile_dict, fallback) ==
    LET filled == {k \in DOMAIN fallback :
                      ~TruthyAt(k, Get(profile_dict, k)) /\ TruthyAt(k, fallback[k])}
    IN  [k \in (DOMAIN profile_dict) \cup filled |->
            IF k \in filled THEN fallback[k] ELSE profile_dict[k]]

\* lines 209-226, for a raw profile that has both keys
process_profile(profile_data, run) ==
    apply_fallback(extract_structured_profile(profile_data["id"], run),
                   fallback_mapping(profile_data))

----------------------------------------------------------------------------
(* utils/agent_runners.py: AgentRunners.parse_single_profile (lines 27-86) *)

\* the clock advances in ticks; int(time.time()) drops the part below a second
TicksPerSecond == 2
whole_seconds(ticks) == ticks \div TicksPerSecond

DigitChar(d) ==
    CASE d = 0 -> "0" [] d = 1 -> "1" [] d = 2 -> "2" [] d = 3 -> "3" [] d = 4 -> "4"
      [] d = 5 -> "5" [] d = 6 -> "6" [] d = 7 -> "7" [] d = 8 -> "8" [] d = 9 -> "9"

RECURSIVE Decimal(_)
\* str(n) of a non-negative int
Decimal(n) == IF n < 10 THEN <<DigitChar(n)>> ELSE Decimal(n \div 10) \o <<DigitChar(n % 10)>>

\* line 40: profile_id = f"U-{int(time.time())}"; nothing of the invocation enters it
new_profile_id(now, invocation) == <<"U","-">> \o Decimal(whole_seconds(now))

\* d.get(k, default): the default only for an absent key
GetOr(d, k, default) == IF k \in DOMAIN d THEN d[k] ELSE default

\* lines 58-69; city stands for city, area, study_habits and food_pref
parsed_profile(profile_dict, pid) ==
    [id              |-> GetOr(profile_dict, "id", Some(pid)),
     city            |-> GetOr(profile_dict, "city", Some(<<>>)),
     budget_PKR      |-> GetOr(profile_dict, "budget_PKR", Some(0)),
     sleep_schedule  |-> GetOr(profile_dict, "sleep_schedule", Some(<<>>)),
     cleanliness     |-> GetOr(profile_dict, "cleanliness", Some(<<>>)),
     noise_tolerance |-> GetOr(profile_dict, "noise_tolerance", Some(<<>>)),
     notes           |-> Some(<<>>)]

\* lines 52-71: the awaited extraction, the check of its answer and the return;
\* "not profile_dict" is true of {}
finish_parse(pid, run) ==
    LET profile_dict == extract_structured_profile(Some(pid), run)
    IN  IF DOMAIN profile_dict = {} \/ ~TruthyStr(Get(profile_dict, "id"))
        THEN [status |-> "raised"]
        ELSE [status |-> "returned", profile |-> parsed_profile(profile_dict, pid)]

----------------------------------------------------------------------------
(* compatibility_agent.py: score_compatibility *)

BudgetCap == 20
LifestyleDeduction == 30
GuestsDeduction == 25
ScoreFloor == 0
ScoreCeiling == 100
DisparityPercent == 50

conflict_budget_disparity ==
    [type |-> "budget_disparity", severity |-> "high", confidence |-> 88]
conflict_lifestyle_mismatch ==
    [type |-> "lifestyle_mismatch", severity |-> "high", confidence |-> 85]
conflict_guest_policy ==
    [type |-> "guest_policy", severity |-> "high", confidence |-> 80]

SchemaValid_unchecked(output) == TRUE
\* CompatibilityAnalysis.compatibility_score: int = Field(ge=0, le=100)
SchemaValid(output) ==
    output.compatibility_score >= ScoreFloor /\ output.compatibility_score <= ScoreCeiling

\* runner.run(compatibility_scorer, message): the agent's reply as the caller sees
\* it.  An output that breaks the output schema never reaches the caller: the run
\* raises, and which exception class it raises is the library's choice (on_invalid).
runner_run(reply, on_invalid) ==
    IF reply.kind = "output" /\ ~SchemaValid(reply)
    THEN [kind |-> "raise", exc |-> on_invalid]
    ELSE reply

\* the guard of line 175: both budgets truthy (None and 0 are skipped alike)
budgets_present(pa, pb) == TruthyInt(pa.budget_PKR) /\ TruthyInt(pb.budget_PKR)

budget_diff(pa, pb) == Abs(Val(pa.budget_PKR) - Val(pb.budget_PKR))

max_budget_wrong(pa, pb) == Val(pa.budget_PKR)
max_budget(pa, pb) == Max(Val(pa.budget_PKR), Val(pb.budget_PKR))

percent_rounded(diff, maxb) ==
    LET q == (diff * 100) \div maxb
        r == (diff * 100) % maxb
    IN  IF 2 * r < maxb THEN q
        ELSE IF 2 * r > maxb THEN q + 1
        ELSE IF q % 2 = 0 THEN q ELSE q + 1
\* int((diff / max_budget) * 100): float division, then truncation toward zero.
\* For 0 <= diff <= max_budget the truncated float equals the integer quotient
\* wherever either is below the cap of 20 (checked exhaustively for max_budget <= 3000
\* and for the budgets of this model), so min(.., 20) is exact.
percent_truncated(diff, maxb) == (diff * 100) \div maxb

budget_deduction_uncapped(pa, pb) ==
    IF budgets_present(pa, pb)
    THEN IF max_budget(pa, pb) > 0
         THEN percent_truncated(budget_diff(pa, pb), max_budget(pa, pb))
         ELSE 0
    ELSE 0
\* lines 175-180: the budget part of total_deduction
budget_deduction(pa, pb) ==
    IF budgets_present(pa, pb)
    THEN IF max_budget(pa, pb) > 0
         THEN Min(percent_truncated(budget_diff(pa, pb), max_budget(pa, pb)), BudgetCap)
         ELSE 0
    ELSE 0

lifestyle_of(p) == infer_lifestyle(p.sleep_schedule, p.noise_tolerance)
guests_of(p) == infer_guests_policy(p.security_requirement)

both_and_differ_unchecked(x, y) == x # None /\ y # None
\* "x and y and x != y" of lines 187, 191, 216 and 220, on two inferred values
both_and_differ(x, y) == x # None /\ y # None /\ x # y

lifestyle_deduction(a_lifestyle, b_lifestyle) ==
    IF both_and_differ(a_lifestyle, b_lifestyle) THEN LifestyleDeduction ELSE 0

guests_deduction(a_guests, b_guests) ==
    IF both_and_differ(a_guests, b_guests) THEN GuestsDeduction ELSE 0

clamp_score(x) == Max(ScoreFloor, Min(ScoreCeiling, x))

budget_disparity_fires_absolute(diff, maxb) == diff > 10000
\* diff / max_budget * 100 > 50 and max_budget > 0
budget_disparity_fires(diff, maxb) ==
    diff * 100 > DisparityPercent * maxb /\ maxb > 0

detected_conflicts_reordered(total, diff, maxb, a_lifestyle, b_lifestyle, a_guests, b_guests) ==
    IF total > 0
    THEN (IF both_and_differ(a_lifestyle, b_lifestyle)
          THEN <<conflict_lifestyle_mismatch>> ELSE <<>>)
         \o (IF budget_disparity_fires(diff, maxb)
             THEN <<conflict_budget_disparity>> ELSE <<>>)
         \o (IF both_and_differ(a_guests, b_guests)
             THEN <<conflict_guest_policy>> ELSE <<>>)
    ELSE <<>>
\* lines 210-223, over the locals of score_compatibility
detected_conflicts(total, diff, maxb, a_lifestyle, b_lifestyle, a_guests, b_guests) ==
    IF total > 0
    THEN (IF budget_disparity_fires(diff, maxb)
          THEN <<conflict_budget_disparity>> ELSE <<>>)
         \o (IF both_and_differ(a_lifestyle, b_lifestyle)
             THEN <<conflict_lifestyle_mismatch>> ELSE <<>>)
         \o (IF both_and_differ(a_guests, b_guests)
             THEN <<conflict_guest_policy>> ELSE <<>>)
    ELSE <<>>

\* lines 173-223: the recalculation taken when result has no truthy score.
\* diff and max_budget are assigned only inside the "if" of line 175; line 212
\* reads them whenever total_deduction > 0, so with that branch skipped the read
\* is of an unbound local and raises UnboundLocalError.
rule_based(pa, pb) ==
    LET present     == budgets_present(pa, pb)
        a_lifestyle == lifestyle_of(pa)
        b_lifestyle == lifestyle_of(pb)
        a_guests    == guests_of(pa)
        b_guests    == guests_of(pb)
        total       == budget_deduction(pa, pb)
                       + lifestyle_deduction(a_lifestyle, b_lifestyle)
                       + guests_deduction(a_guests, b_guests)
    IN  IF total > 0 /\ ~present
        THEN [status |-> "raised", exc |-> "UnboundLocalError"]
        ELSE [status |-> "returned",
              path |-> "rule",
              compatibility_score |-> clamp_score(100 - total),
              detected_conflicts |->
                  detected_conflicts(total, budget_diff(pa, pb), max_budget(pa, pb),
                                     a_lifestyle, b_lifestyle, a_guests, b_guests),
              profile_a_id |-> pa.id,
              profile_b_id |-> pb.id]

\* lines 126-225; run is what runner.run gave: an output, an object with no
\* output attribute, or an exception.  Only ValidationError is caught (line 144).
score_compatibility(pa, pb, run) ==
    IF run.kind = "raise" /\ run.exc # "ValidationError"
    THEN [status |-> "raised", exc |-> run.exc]
    ELSE IF run.kind = "output" /\ run.compatibility_score # 0
    THEN [status |-> "returned",
          path |-> "agent",
          compatibility_score |-> run.compatibility_score,
          detected_conflicts |-> run.detected_conflicts,
          profile_a_id |-> pa.id,
          profile_b_id |-> pb.id]
    ELSE rule_based(pa, pb)

----------------------------------------------------------------------------
(* The inputs of the scoring model *)

BudgetSteps == 1

Budgets ==
    {None, Some(0), Some(10000), Some(18000), Some(30000)}
    \cup {Some(24000 + 1000 * i) : i \in 0..BudgetSteps}

SleepValues == {None, Some(s_flexible), Some(s_night_owl), Some(s_early)}
NoiseValues == {Some(s_medium), Some(s_high)}
SecurityValues ==
    {None, Some(s_female_only_high_security), Some(s_flexible_mixed_housing_ok),
     Some(s_gated)}

s_R387 == <<"R","-","3","8","7">>
s_R388 == <<"R","-","3","8","8">>

ProfilesWithId(id) ==
    [id : {Some(id)}, budget_PKR : Budgets, sleep_schedule : SleepValues,
     noise_tolerance : NoiseValues, security_requirement : SecurityValues]

AgentConflictLists == {<<>>, <<conflict_lifestyle_mismatch, conflict_guest_policy>>}
AgentScores == {-1, 0, 1, 100, 101}
AgentReplies ==
    [kind : {"output"}, compatibility_score : AgentScores,
     detected_conflicts : AgentConflictLists]
    \cup [kind : {"raise"}, exc : {"ValidationError", "RuntimeError"}]
    \cup {[kind |-> "no_output"]}
InvalidOutputExceptions == {"ValidationError", "ModelBehaviorError"}

\* everything runner.run can hand to score_compatibility
RunOutcomes ==
    {runner_run(reply, on_invalid) :
        reply \in AgentReplies, on_invalid \in InvalidOutputExceptions}

Idle == [status |-> "idle"]
NotRun == [kind |-> "not_run"]

----------------------------------------------------------------------------
(* Scoring one pair *)

ScoreParked == profile_a = None /\ profile_b = None /\ resp = NotRun /\ result = Idle
NormParked == value = None /\ category = "none" /\ normalized = Idle
ExtractParked == profile_id = None /\ agent_run = NotRun /\ extracted = Idle
ReaderParked ==
    /\ data_json = None /\ raw_profiles = <<>> /\ reader_i = 0
    /\ structured_profiles = <<>> /\ reader_pc = "parked" /\ reader_returned = None
    /\ profiles_datas_json = None

ParseParked ==
    /\ clock = 0 /\ file_path = <<>> /\ parse_pc = <<>>
    /\ parse_profile_id = <<>> /\ parse_outcome = <<>>

BatchParked ==
    /\ profiles_json = None /\ caller = "none" /\ batch_pc = "parked"
    /\ batch_outcome = Idle /\ caller_pc = "parked" /\ caller_got = None
    /\ printed = <<>>

InferParked ==
    /\ infer_sleep = None /\ infer_noise = None /\ infer_security = None
    /\ inferred = Idle

PipelineParked ==
    /\ pipeline_pc = "parked" /\ compatibility = Idle /\ red_flags = Idle
    /\ advice = Idle /\ pipeline_runs = <<>>

UploadParked ==
    /\ uploads_dir = <<>> /\ session_state = <<>> /\ upload_pc = <<>>
    /\ uploaded_file = <<>> /\ dest_path = <<>> /\ upload_idx = <<>>
    /\ page_outcome = <<>> /\ uploads_made = <<>>

\* the parts of the state each specification leaves alone
scoreRest == <<normVars, extractVars, readerVars, parseVars, batchVars,
                inferVars, pipelineVars, uploadVars>>
ScoreRestParked ==
    /\ NormParked /\ ExtractParked /\ ReaderParked /\ ParseParked /\ BatchParked
    /\ InferParked /\ PipelineParked /\ UploadParked
normRest == <<scoreVars, extractVars, readerVars, parseVars, batchVars,
               inferVars, pipelineVars, uploadVars>>
NormRestParked ==
    /\ ScoreParked /\ ExtractParked /\ ReaderParked /\ ParseParked /\ BatchParked
    /\ InferParked /\ PipelineParked /\ UploadParked
extractRest == <<scoreVars, normVars, readerVars, parseVars, batchVars,
                  inferVars, pipelineVars, uploadVars>>
ExtractRestParked ==
    /\ ScoreParked /\ NormParked /\ ReaderParked /\ ParseParked /\ BatchParked
    /\ InferParked /\ PipelineParked /\ UploadParked
readerRest == <<scoreVars, normVars, extractVars, parseVars, batchVars,
                 inferVars, pipelineVars, uploadVars>>
ReaderRestParked ==
    /\ ScoreParked /\ NormParked /\ ExtractParked /\ ParseParked /\ BatchParked
    /\ InferParked /\ PipelineParked /\ UploadParked
parseRest == <<scoreVars, normVars, extractVars, readerVars, batchVars,
                inferVars, pipelineVars, uploadVars>>
ParseRestParked ==
    /\ ScoreParked /\ NormParked /\ ExtractParked /\ ReaderParked /\ BatchParked
    /\ InferParked /\ PipelineParked /\ UploadParked
inferRest == <<scoreVars, normVars, extractVars, readerVars, parseVars, batchVars,
               pipelineVars, uploadVars>>
InferRestParked ==
    /\ ScoreParked /\ NormParked /\ ExtractParked /\ ReaderParked /\ ParseParked
    /\ BatchParked /\ PipelineParked /\ UploadParked
pipelineRest == <<normVars, extractVars, readerVars, parseVars, batchVars, inferVars,
                  uploadVars>>
PipelineRestParked ==
    /\ NormParked /\ ExtractParked /\ ReaderParked /\ ParseParked /\ BatchParked
    /\ InferParked /\ UploadParked
uploadRest == <<scoreVars, normVars, extractVars, readerVars, parseVars, batchVars,
                inferVars, pipelineVars>>
UploadRestParked ==
    /\ ScoreParked /\ NormParked /\ ExtractParked /\ ReaderParked /\ ParseParked
    /\ BatchParked /\ InferParked /\ PipelineParked
batchRest == <<scoreVars, normVars, extractVars, readerVars, parseVars,
                inferVars, pipelineVars, uploadVars>>
BatchRestParked ==
    /\ ScoreParked /\ NormParked /\ ExtractParked /\ ReaderParked /\ ParseParked
    /\ InferParked /\ PipelineParked /\ UploadParked

InitScore ==
    /\ profile_a \in ProfilesWithId(s_R387)
    /\ profile_b \in ProfilesWithId(s_R388)
    /\ resp = NotRun
    /\ result = Idle
    /\ ScoreRestParked

ScoreCompatibility ==
    /\ result = Idle
    /\ \E r \in RunOutcomes :
          /\ resp' = r
          /\ result' = score_compatibility(profile_a, profile_b, r)
    /\ UNCHANGED <<profile_a, profile_b, scoreRest>>

NextScore == ScoreCompatibility

SpecScore == InitScore /\ [][NextScore]_vars

----------------------------------------------------------------------------
(* Normalizing one value *)

MaxFragments == 2

s_TIDY  == <<"T","I","D","Y">>
s_Night == <<"N","i","g","h","t">>
s_space == <<" ">>
s_owl   == <<"o","w","l">>

\* pieces the raw values are made of: canonical values, keywords of the tables,
\* upper-case spellings and text no table knows
Fragments ==
    {s_early, s_normal, s_night_owl, s_flexible, s_high, s_medium, s_low,
     s_tidy, s_saaf, s_messy, s_ganda, s_quiet, s_loud, s_moderate, s_late,
     s_TIDY, s_Night, s_owl, s_space, s_gandey, s_raat, s_shor_zyada}

RECURSIVE Concat(_)
Concat(parts) ==
    IF parts = <<>> THEN <<>> ELSE Head(parts) \o Concat(Tail(parts))

RawStrings ==
    UNION {{Concat(parts) : parts \in [1..n -> Fragments]} : n \in 0..MaxFragments}

NormalizerInputs == {None} \cup {Some(str) : str \in RawStrings}

InitNormalize ==
    /\ value \in NormalizerInputs
    /\ category \in Categories
    /\ normalized = Idle
    /\ NormRestParked

Normalize ==
    /\ normalized = Idle
    /\ normalized' = [status |-> "returned", copy |-> "profile_reader",
                      value |-> normalize(value, category)]
    /\ UNCHANGED <<value, category, normRest>>

\* the same call made in tools/profile_proccesor.py
NormalizeInTools ==
    /\ normalized = Idle
    /\ normalized' = [status |-> "returned", copy |-> "tools",
                      value |-> normalize_in("tools", value, category)]
    /\ UNCHANGED <<value, category, normRest>>

\* the same call made in agents_workflow/profile_reader_agent.py
NormalizeInWorkflow ==
    /\ normalized = Idle
    /\ normalized' = [status |-> "returned", copy |-> "agents_workflow",
                      value |-> normalize_in("agents_workflow", value, category)]
    /\ UNCHANGED <<value, category, normRest>>

NextNormalize == Normalize \/ NormalizeInTools \/ NormalizeInWorkflow

SpecNormalize == InitNormalize /\ [][NextNormalize]_vars

----------------------------------------------------------------------------
(* Extracting one profile *)

s_Lahore == <<"L","a","h","o","r","e">>

\* what the ProfileReader agent can put in a ProfileSchema: the canonical values
\* its instructions ask for, null, and text outside the vocabulary
AgentSleep == {None, Some(s_late)} \cup {Some(v) : v \in Canonical("sleep_schedule")}
AgentCleanliness == {None, Some(s_TIDY)} \cup {Some(v) : v \in Canonical("cleanliness")}
AgentNoise == {None, Some(s_loud)} \cup {Some(v) : v \in Canonical("noise_tolerance")}
AgentBudget == {None, Some(0), Some(24000), Some(-5000)}

\* city stands for the four free-text fields city, area, study_habits and
\* food_pref, which extract_structured_profile passes through untouched
AgentOutputs ==
    [id : {None}, city : {None, Some(s_Lahore)}, budget_PKR : AgentBudget,
     sleep_schedule : AgentSleep, cleanliness : AgentCleanliness,
     noise_tolerance : AgentNoise]

ExtractRunOutcomes ==
    {[kind |-> "output", output |-> o] : o \in AgentOutputs}
    \cup {[kind |-> "raise"], [kind |-> "no_output"]}

ProfileIds == {None, Some(<<>>), Some(s_R387)}

InitExtract ==
    /\ profile_id \in ProfileIds
    /\ agent_run \in ExtractRunOutcomes
    /\ extracted = Idle
    /\ ExtractRestParked

Extract ==
    /\ extracted = Idle
    /\ extracted' = [status |-> "returned",
                     profile_dict |-> extract_structured_profile(profile_id, agent_run)]
    /\ UNCHANGED <<profile_id, agent_run, extractRest>>

NextExtract == Extract

SpecExtract == InitExtract /\ [][NextExtract]_vars

----------------------------------------------------------------------------
(* Reading a batch of raw profiles *)

MaxRawProfiles == 2

s_text == <<"C","i","t","y",":"," ","L","a","h","o","r","e">>

RECURSIVE DictsOver(_)
\* every dict made by choosing, for each key, one of its options or leaving it out
DictsOver(options) ==
    IF DOMAIN options = {} THEN {EmptyDict}
    ELSE LET k == CHOOSE x \in DOMAIN options : TRUE
             rest == DictsOver([x \in (DOMAIN options) \ {k} |-> options[x]])
         IN  rest \cup {Put(d, k, v) : d \in rest, v \in options[k]}

\* an entry of data.json: any of its keys may be missing, and budget_PKR is
\* whatever number the file holds
RawProfiles ==
    DictsOver([id |-> {Some(<<>>), Some(s_R387)},
               raw_profile_text |-> {Some(s_text)},
               city |-> {Some(s_Lahore)},
               budget_PKR |-> {Some(-5000), Some(30000)}])

ReaderOutput ==
    [id |-> None, city |-> None, budget_PKR |-> Some(24000),
     sleep_schedule |-> Some(s_night_owl), cleanliness |-> Some(s_high),
     noise_tolerance |-> Some(s_low)]

ReaderRunOutcomes ==
    {[kind |-> "output", output |-> ReaderOutput], [kind |-> "raise"],
     [kind |-> "no_output"]}

DataFiles ==
    {None} \cup
    {Some(list) : list \in UNION {[1..n -> RawProfiles] : n \in 0..MaxRawProfiles}}

InitReader ==
    /\ data_json \in DataFiles
    /\ raw_profiles = <<>>
    /\ reader_i = 0
    /\ structured_profiles = <<>>
    /\ reader_pc = "start"
    /\ reader_returned = None
    /\ profiles_datas_json = None
    /\ ReaderRestParked

\* lines 199-205; a missing data.json is FileNotFoundError: return [] (241-243)
LoadRawProfiles ==
    /\ reader_pc = "start"
    /\ IF data_json = None
       THEN /\ reader_pc' = "returned"
            /\ reader_returned' = Some(<<>>)
            /\ UNCHANGED <<raw_profiles, reader_i>>
       ELSE /\ raw_profiles' = Take(Val(data_json), BatchLimit)
            /\ reader_i' = 1
            /\ reader_pc' = "loop"
            /\ UNCHANGED reader_returned
    /\ UNCHANGED <<data_json, structured_profiles, profiles_datas_json, readerRest>>

\* one iteration of the loop of lines 207-231
ProcessProfile ==
    /\ reader_pc = "loop"
    /\ reader_i <= Len(raw_profiles)
    /\ LET profile_data == raw_profiles[reader_i]
       IN  IF "id" \notin DOMAIN profile_data
           THEN \* KeyError in the body, and again in the handler of line 231,
                \* which formats profile_data['id']: the second one leaves the
                \* loop and is answered by "return []" (lines 244-246)
                /\ reader_pc' = "returned"
                /\ reader_returned' = Some(<<>>)
                /\ UNCHANGED <<reader_i, structured_profiles>>
           ELSE IF "raw_profile_text" \notin DOMAIN profile_data
           THEN \* KeyError, reported by the handler: the profile is skipped
                /\ reader_i' = reader_i + 1
                /\ UNCHANGED <<reader_pc, reader_returned, structured_profiles>>
           ELSE \E run \in ReaderRunOutcomes :
                /\ structured_profiles' =
                      Append(structured_profiles, process_profile(profile_data, run))
                /\ reader_i' = reader_i + 1
                /\ UNCHANGED <<reader_pc, reader_returned>>
    /\ UNCHANGED <<data_json, raw_profiles, profiles_datas_json, readerRest>>

\* lines 233-239: the list is written to profiles_datas.json and returned
WriteStructuredProfiles ==
    /\ reader_pc = "loop"
    /\ reader_i > Len(raw_profiles)
    /\ profiles_datas_json' = Some(structured_profiles)
    /\ reader_returned' = Some(structured_profiles)
    /\ reader_pc' = "returned"
    /\ UNCHANGED <<data_json, raw_profiles, reader_i, structured_profiles, readerRest>>

NextReader == LoadRawProfiles \/ ProcessProfile \/ WriteStructuredProfiles

SpecReader == InitReader /\ [][NextReader]_vars

----------------------------------------------------------------------------
(* Invocations of parse_single_profile, running concurrently *)

MaxTicks == 3

Invocations == {1, 2}

\* the uploaded file: its extension, and whether python-docx gets text out of it
UploadedFiles ==
    [ext : {".docx"}, readable : BOOLEAN]
    \cup [ext : {".pdf", ".png", ".txt"}, readable : {FALSE}]

InitParse ==
    /\ clock = 0
    /\ file_path \in [Invocations -> UploadedFiles]
    /\ parse_pc = [i \in Invocations |-> "start"]
    /\ parse_profile_id = [i \in Invocations |-> None]
    /\ parse_outcome = [i \in Invocations |-> Idle]
    /\ ParseRestParked

Tick ==
    /\ clock < MaxTicks
    /\ clock' = clock + 1
    /\ UNCHANGED <<file_path, parse_pc, parse_profile_id, parse_outcome, parseRest>>

\* lines 38-40
GenerateProfileId(i) ==
    /\ parse_pc[i] = "start"
    /\ parse_profile_id' = [parse_profile_id EXCEPT ![i] = Some(new_profile_id(clock, i))]
    /\ parse_pc' = [parse_pc EXCEPT ![i] = "have_id"]
    /\ UNCHANGED <<clock, file_path, parse_outcome, parseRest>>

\* lines 43-49 and 73-86: the extension is checked and the DOCX text read; every
\* failure is re-raised as "Failed to parse profile"
ReadUploadedFile(i) ==
    /\ parse_pc[i] = "have_id"
    /\ IF file_path[i].ext = ".docx" /\ file_path[i].readable
       THEN /\ parse_pc' = [parse_pc EXCEPT ![i] = "awaiting_agent"]
            /\ UNCHANGED parse_outcome
       ELSE /\ parse_pc' = [parse_pc EXCEPT ![i] = "done"]
            /\ parse_outcome' = [parse_outcome EXCEPT ![i] = [status |-> "raised"]]
    /\ UNCHANGED <<clock, file_path, parse_profile_id, parseRest>>

\* lines 52-71: the agent answers and the invocation returns or raises
FinishParse(i) ==
    /\ parse_pc[i] = "awaiting_agent"
    /\ \E run \in ReaderRunOutcomes :
          parse_outcome' =
              [parse_outcome EXCEPT ![i] = finish_parse(Val(parse_profile_id[i]), run)]
    /\ parse_pc' = [parse_pc EXCEPT ![i] = "done"]
    /\ UNCHANGED <<clock, file_path, parse_profile_id, parseRest>>

NextParse ==
    \/ Tick
    \/ \E i \in Invocations : GenerateProfileId(i)
    \/ \E i \in Invocations : ReadUploadedFile(i)
    \/ \E i \in Invocations : FinishParse(i)

SpecParse == InitParse /\ [][NextParse]_vars

----------------------------------------------------------------------------
(* Scoring all combinations: compatibility_agent.py score_all_combinations
   (lines 250-272) under its two callers, the __main__ block (lines 276-285)
   and AgentRunners.run_all_compatibility_combinations
   (utils/agent_runners.py lines 106-113) *)

MaxProfiles == 3

BatchProfiles ==
    [id : {Some(s_R387), Some(s_R388)}, budget_PKR : {Some(24000), Some(30000)},
     sleep_schedule : {None}, noise_tolerance : {None}, security_requirement : {None}]

ProfilesFiles ==
    {None} \cup
    {Some(list) : list \in UNION {[1..n -> BatchProfiles] : n \in 0..MaxProfiles}}

Callers == {"__main__", "run_all_compatibility_combinations"}

InitBatch ==
    /\ profiles_json \in ProfilesFiles
    /\ caller \in Callers
    /\ batch_pc = "idle"
    /\ batch_outcome = Idle
    /\ caller_pc = "start"
    /\ caller_got = None
    /\ printed = <<>>
    /\ BatchRestParked

\* line 277 and agent_runners.py line 110: the caller enters the coroutine
CallScoreAllCombinations ==
    /\ caller_pc = "start"
    /\ caller_pc' = "waiting"
    /\ batch_pc' = "entered"
    /\ UNCHANGED <<profiles_json, caller, batch_outcome, caller_got, printed, batchRest>>

\* line 251, the first statement: os.path.abspath(_file_).  The module defines
\* no name _file_ (Python's is __file__), so evaluating the argument raises
\* NameError before profiles.json is looked at; lines 252-272 are never reached.
ResolveRootDir ==
    /\ batch_pc = "entered"
    /\ batch_pc' = "raised"
    /\ batch_outcome' = [status |-> "raised", exc |-> "NameError"]
    /\ UNCHANGED <<profiles_json, caller, caller_pc, caller_got, printed, batchRest>>

\* lines 276-277: asyncio.run re-raises in __main__, which has no handler; the
\* ranking of lines 278-285 is not reached and nothing is printed
MainFailsWithTraceback ==
    /\ caller = "__main__"
    /\ caller_pc = "waiting"
    /\ batch_pc = "raised"
    /\ caller_pc' = "crashed"
    /\ UNCHANGED <<profiles_json, caller, batch_pc, batch_outcome, caller_got, printed,
                   batchRest>>

all_combinations_or_error(outcome) ==
    IF outcome.status = "raised" THEN <<[error |-> outcome.exc]>> ELSE outcome.results
\* agent_runners.py lines 109-113: what run_all_compatibility_combinations
\* returns for an outcome of score_all_combinations
all_combinations_or_empty(outcome) ==
    IF outcome.status = "raised" THEN <<>> ELSE outcome.results

\* agent_runners.py lines 111-113: except Exception: return []
RunnerReturnsEmptyList ==
    /\ caller = "run_all_compatibility_combinations"
    /\ caller_pc = "waiting"
    /\ batch_pc = "raised"
    /\ caller_pc' = "returned"
    /\ caller_got' = Some(all_combinations_or_empty(batch_outcome))
    /\ UNCHANGED <<profiles_json, caller, batch_pc, batch_outcome, printed, batchRest>>

NextBatch ==
    \/ CallScoreAllCombinations
    \/ ResolveRootDir
    \/ MainFailsWithTraceback
    \/ RunnerReturnsEmptyList

SpecBatch == InitBatch /\ [][NextBatch]_vars

----------------------------------------------------------------------------
(* utils/agent_runners.py: the runners of run_full_pipeline (lines 97-196) *)

\* lines 97-104: any exception of score_compatibility becomes {"error": str(e)}
run_compatibility_agent_unguarded(pa, pb, run) == score_compatibility(pa, pb, run)
run_compatibility_agent(pa, pb, run) ==
    LET scored == score_compatibility(pa, pb, run)
    IN  IF scored.status = "raised" THEN [error |-> scored.exc] ELSE scored

\* lines 120-142: the fixed report run_red_flag_agent returns for any argument
red_flag_report ==
    [analysis_summary |->
        [total_conflicts_detected |-> 2, high_confidence_flags |-> 1,
         filtered_red_flags |-> 1, overall_risk_level |-> "MEDIUM"],
     red_flags |->
        <<[flag_id |-> "RF001", type |-> "budget_disparity", severity |-> "MEDIUM",
           confidence |-> 85, description |-> "Budget difference detected",
           recommendation |-> "Discuss cost sharing"]>>,
     overall_assessment |->
        [recommendation |-> "PROCEED WITH CAUTION", risk_level |-> "MEDIUM",
         viability_score |-> 70]]

\* lines 115-145
run_red_flag_agent(compatibility_result) == red_flag_report

\* lines 156-159: the fixed answer of run_wingman_agent
wingman_answer ==
    [advice |-> "Based on the analysis, this match has some challenges but can work with proper communication and boundary setting.",
     recommendation |-> "Proceed with caution and establish clear house rules."]

\* lines 147-162: the WingMan demo is awaited first (wingMan.py 74-133, a call of
\* the external agent); if it raises the answer is {"error": str(e)}
run_wingman_agent(filtered_matches, demo) ==
    IF demo.kind = "raise" THEN [error |-> demo.exc] ELSE wingman_answer

\* lines 189-193
pipeline_result(c, r, a) == [compatibility |-> c, red_flags |-> r, advice |-> a]

----------------------------------------------------------------------------
(* Calls of run_full_pipeline, one after the other *)

MaxPipelineRuns == 2

\* the example profiles of the scorer's instructions (compatibility_agent.py
\* 103-104), and variants of the second one
student_a ==
    [id |-> Some(s_R387), budget_PKR |-> Some(24000), sleep_schedule |-> Some(s_flexible),
     noise_tolerance |-> Some(s_medium), security_requirement |-> None]
student_b ==
    [id |-> Some(s_R388), budget_PKR |-> Some(30000), sleep_schedule |-> Some(s_night_owl),
     noise_tolerance |-> Some(s_high), security_requirement |-> None]
student_b_same_budget == [student_b EXCEPT !.budget_PKR = Some(24000)]
student_b_no_budget == [student_b EXCEPT !.budget_PKR = None]

PipelinePairs ==
    {<<student_a, student_a>>, <<student_a, student_b>>, <<student_b, student_a>>,
     <<student_a, student_b_same_budget>>, <<student_a, student_b_no_budget>>}

\* a conflict the CompatibilityAnalysis schema lets through: DetectedConflict
\* only asks for a str severity and an int confidence (lines 55-58)
conflict_unbounded ==
    [type |-> "other_mismatch", severity |-> "medium", confidence |-> 120]

PipelineReplies ==
    {[kind |-> "output", compatibility_score |-> 90,
      detected_conflicts |-> <<conflict_unbounded>>],
     [kind |-> "output", compatibility_score |-> 101, detected_conflicts |-> <<>>],
     [kind |-> "raise", exc |-> "RuntimeError"],
     [kind |-> "no_output"]}

PipelineRunOutcomes ==
    {runner_run(reply, on_invalid) :
        reply \in PipelineReplies, on_invalid \in InvalidOutputExceptions}

\* what awaiting run_wingman_short_advice_demo can do
DemoOutcomes == {[kind |-> "printed"], [kind |-> "raise", exc |-> "RuntimeError"]}

InitPipeline ==
    /\ ScoreParked
    /\ pipeline_pc = "idle"
    /\ compatibility = Idle
    /\ red_flags = Idle
    /\ advice = Idle
    /\ pipeline_runs = <<>>
    /\ PipelineRestParked

\* run_full_pipeline(profile_a, profile_b) is called
CallFullPipeline ==
    /\ pipeline_pc = "idle"
    /\ Len(pipeline_runs) < MaxPipelineRuns
    /\ \E pair \in PipelinePairs :
          /\ profile_a' = pair[1]
          /\ profile_b' = pair[2]
    /\ resp' = NotRun
    /\ result' = Idle
    /\ compatibility' = Idle
    /\ red_flags' = Idle
    /\ advice' = Idle
    /\ pipeline_pc' = "compatibility"
    /\ UNCHANGED <<pipeline_runs, pipelineRest>>

\* lines 179-181
RunCompatibilityAgent ==
    /\ pipeline_pc = "compatibility"
    /\ \E r \in PipelineRunOutcomes :
          /\ resp' = r
          /\ result' = score_compatibility(profile_a, profile_b, r)
          /\ compatibility' = run_compatibility_agent(profile_a, profile_b, r)
    /\ pipeline_pc' = "red_flags"
    /\ UNCHANGED <<profile_a, profile_b, red_flags, advice, pipeline_runs, pipelineRest>>

\* line 184
RunRedFlagAgent ==
    /\ pipeline_pc = "red_flags"
    /\ red_flags' = run_red_flag_agent(compatibility)
    /\ pipeline_pc' = "advice"
    /\ UNCHANGED <<scoreVars, compatibility, advice, pipeline_runs, pipelineRest>>

\* line 187
RunWingmanAgent ==
    /\ pipeline_pc = "advice"
    /\ \E demo \in DemoOutcomes : advice' = run_wingman_agent(<<red_flags>>, demo)
    /\ pipeline_pc' = "return"
    /\ UNCHANGED <<scoreVars, compatibility, red_flags, pipeline_runs, pipelineRest>>

\* lines 189-193
ReturnFullPipeline ==
    /\ pipeline_pc = "return"
    /\ pipeline_runs' =
          Append(pipeline_runs,
                 [profile_a |-> profile_a, profile_b |-> profile_b,
                  returned |-> pipeline_result(compatibility, red_flags, advice)])
    /\ pipeline_pc' = "idle"
    /\ UNCHANGED <<scoreVars, compatibility, red_flags, advice, pipelineRest>>

NextPipeline ==
    \/ CallFullPipeline
    \/ RunCompatibilityAgent
    \/ RunRedFlagAgent
    \/ RunWingmanAgent
    \/ ReturnFullPipeline

SpecPipeline == InitPipeline /\ [][NextPipeline]_vars

----------------------------------------------------------------------------
(* Deriving the lifestyle and the guest policy of one profile *)

\* what a profile can carry: null, the empty string, or a value of the enum
InferSleepValues == {None, Some(<<>>)} \cup {Some(v) : v \in Canonical("sleep_schedule")}
InferNoiseValues == {None, Some(<<>>)} \cup {Some(v) : v \in Canonical("noise_tolerance")}
InferSecurityValues == SecurityValues \cup {Some(<<>>)}

InitInfer ==
    /\ infer_sleep \in InferSleepValues
    /\ infer_noise \in InferNoiseValues
    /\ infer_security \in InferSecurityValues
    /\ inferred = Idle
    /\ InferRestParked

InferLifestyle ==
    /\ inferred = Idle
    /\ inferred' = [status |-> "returned", of |-> "lifestyle",
                    value |-> infer_lifestyle(infer_sleep, infer_noise)]
    /\ UNCHANGED <<infer_sleep, infer_noise, infer_security, inferRest>>

InferGuestsPolicy ==
    /\ inferred = Idle
    /\ inferred' = [status |-> "returned", of |-> "guests_policy",
                    value |-> infer_guests_policy(infer_security)]
    /\ UNCHANGED <<infer_sleep, infer_noise, infer_security, inferRest>>

NextInfer == InferLifestyle \/ InferGuestsPolicy

SpecInfer == InitInfer /\ [][NextInfer]_vars

----------------------------------------------------------------------------
(* main.py: the upload page (show_upload_page, parse_docx_profile) and the
   results page (show_results_page) of the Streamlit app.  Every browser
   session has its own st.session_state and runs its script in a thread of
   its own; the uploads directory is shared by all of them. *)

MaxUploads == 2

Sessions == {1, 2}

s_docx == <<".","d","o","c","x">>
s_Error == <<"E","r","r","o","r">>

\* the names of the uploaded files, split as os.path.splitext splits them
UploadNames == {[base |-> <<"f">>, ext |-> s_docx], [base |-> <<"f","_","1">>, ext |-> s_docx]}

\* line 254: os.path.join(uploads_dir, original_name)
original_path(file) == file.base \o file.ext

\* line 257: os.path.join(uploads_dir, f"{base}_{idx}{ext}")
numbered_path(file, idx) == file.base \o <<"_">> \o Decimal(idx) \o file.ext

\* line 256: os.path.exists(dest_path)
path_exists(dir, path) == path \in DOMAIN dir

\* lines 261-262: open(dest_path, "wb") creates the file or truncates the one
\* that is there; the writers of a path are kept in order, the last one's
\* bytes are the content
write_file(dir, path, writer) ==
    Put(dir, path, Append(IF path_exists(dir, path) THEN dir[path] ELSE <<>>, writer))

\* line 52: str(uuid.uuid4()), a value no other call produces
uuid4(session, n) == <<"u">> \o Decimal(session) \o <<"-">> \o Decimal(n)

\* lines 29-57: the pair (raw_text, structured_data); text is what
\* parse_docx_to_raw_text returned, None when it could not read the file; the
\* error messages are shortened to their first word
parse_docx_profile(docx_available, text, pid, run) ==
    IF ~docx_available THEN [raw_text |-> Some(s_Error), structured_data |-> None]
    ELSE IF text = None THEN [raw_text |-> Some(s_Error), structured_data |-> None]
    ELSE [raw_text |-> text,
          structured_data |-> Some(extract_structured_profile(Some(pid), run))]

store_in_session_data_only(state, parsed) == [state EXCEPT !.parsed_data = parsed.structured_data]
\* lines 279-280
store_in_session(state, parsed) == [parsed_data |-> parsed.structured_data, raw_text |-> parsed.raw_text]

\* lines 347-357 and the tabs after them: what show_results_page renders
results_page(state) ==
    IF state.parsed_data = None
    THEN [page |-> "results", outcome |-> "no_data"]
    ELSE [page |-> "results", outcome |-> "shown", data |-> Val(state.parsed_data)]

\* lines 64-68 and 83-84: a new session starts with both keys None, on the home
\* page; the uploads directory is empty or holds a file left by an earlier run
\* of the app (writer 0)
InitUpload ==
    /\ uploads_dir \in {EmptyDict} \cup
                       {Put(EmptyDict, original_path(f), <<0>>) : f \in UploadNames}
    /\ session_state = [s \in Sessions |-> [parsed_data |-> None, raw_text |-> None]]
    /\ upload_pc = [s \in Sessions |-> "idle"]
    /\ uploaded_file = [s \in Sessions |-> None]
    /\ dest_path = [s \in Sessions |-> None]
    /\ upload_idx = [s \in Sessions |-> 0]
    /\ page_outcome = [s \in Sessions |-> [page |-> "home"]]
    /\ uploads_made = [s \in Sessions |-> 0]
    /\ UploadRestParked

\* the uploads of all sessions so far
uploads_started == uploads_made[1] + uploads_made[2]

\* lines 239-255: a file was handed to the uploader
StartUpload(s) ==
    /\ upload_pc[s] = "idle"
    /\ uploads_started < MaxUploads
    /\ \E file \in UploadNames :
          /\ uploaded_file' = [uploaded_file EXCEPT ![s] = Some(file)]
          /\ dest_path' = [dest_path EXCEPT ![s] = Some(original_path(file))]
    /\ upload_idx' = [upload_idx EXCEPT ![s] = 1]
    /\ uploads_made' = [uploads_made EXCEPT ![s] = @ + 1]
    /\ upload_pc' = [upload_pc EXCEPT ![s] = "exists"]
    /\ UNCHANGED <<uploads_dir, session_state, page_outcome, uploadRest>>

\* lines 256-258: one test of the while condition, and the body when it holds
CheckPathExists(s) ==
    /\ upload_pc[s] = "exists"
    /\ IF path_exists(uploads_dir, Val(dest_path[s]))
       THEN /\ dest_path' = [dest_path EXCEPT
                                ![s] = Some(numbered_path(Val(uploaded_file[s]), upload_idx[s]))]
            /\ upload_idx' = [upload_idx EXCEPT ![s] = @ + 1]
            /\ UNCHANGED upload_pc
       ELSE /\ upload_pc' = [upload_pc EXCEPT ![s] = "write"]
            /\ UNCHANGED <<dest_path, upload_idx>>
    /\ UNCHANGED <<uploads_dir, session_state, uploaded_file, page_outcome, uploads_made,
                   uploadRest>>

\* lines 261-263
SaveUploadedFile(s) ==
    /\ upload_pc[s] = "write"
    /\ uploads_dir' = write_file(uploads_dir, Val(dest_path[s]), s)
    /\ upload_pc' = [upload_pc EXCEPT ![s] = "parse"]
    /\ UNCHANGED <<session_state, uploaded_file, dest_path, upload_idx, page_outcome,
                   uploads_made, uploadRest>>

\* lines 265-322: parse_docx_profile, then the error or the success branch
ParseAndStore(s) ==
    /\ upload_pc[s] = "parse"
    /\ \E docx_available \in BOOLEAN, text \in {None, Some(s_text)},
          run \in ReaderRunOutcomes :
          LET pid == uuid4(s, uploads_made[s])
              parsed == parse_docx_profile(docx_available, text, pid, run)
              agent == IF docx_available /\ text # None THEN run.kind ELSE "not_run"
          IN  IF parsed.structured_data = None
              THEN /\ page_outcome' = [page_outcome EXCEPT ![s] =
                          [page |-> "upload", outcome |-> "error", agent |-> agent]]
                   /\ UNCHANGED session_state
              ELSE /\ session_state' = [session_state EXCEPT
                                           ![s] = store_in_session(@, parsed)]
                   /\ page_outcome' = [page_outcome EXCEPT ![s] =
                          [page |-> "upload", outcome |-> "success", agent |-> agent]]
    /\ upload_pc' = [upload_pc EXCEPT ![s] = "idle"]
    /\ uploaded_file' = [uploaded_file EXCEPT ![s] = None]
    /\ dest_path' = [dest_path EXCEPT ![s] = None]
    /\ upload_idx' = [upload_idx EXCEPT ![s] = 0]
    /\ UNCHANGED <<uploads_dir, uploads_made, uploadRest>>

\* lines 347-357: the results page is chosen in the sidebar
VisitResultsPage(s) ==
    /\ upload_pc[s] = "idle"
    /\ page_outcome' = [page_outcome EXCEPT ![s] = results_page(session_state[s])]
    /\ UNCHANGED <<uploads_dir, session_state, upload_pc, uploaded_file, dest_path,
                   upload_idx, uploads_made, uploadRest>>

NextUpload ==
    \E s \in Sessions :
        \/ StartUpload(s)
        \/ CheckPathExists(s)
        \/ SaveUploadedFile(s)
        \/ ParseAndStore(s)
        \/ VisitResultsPage(s)

SpecUpload == InitUpload /\ [][NextUpload]_vars

----------------------------------------------------------------------------
(* Properties of score_compatibility *)

\* the agent yielded no truthy score: the rule-based recalculation is taken
NoAgentScore ==
    \/ resp.kind = "no_output"
    \/ (resp.kind = "raise" /\ resp.exc = "ValidationError")
    \/ (resp.kind = "output" /\ resp.compatibility_score = 0)

RuleReturned == result.status = "returned" /\ result.path = "rule"

\* the budget part of the deduction behind a returned rule-based score
applied_budget_deduction ==
    100 - result.compatibility_score
    - lifestyle_deduction(lifestyle_of(profile_a), lifestyle_of(profile_b))
    - guests_deduction(guests_of(profile_a), guests_of(profile_b))

\* C1: whenever the agent yields no score, the rule-based path returns a result
\* with a compatibility_score and a detected_conflicts list, whichever optional
\* fields of the two profiles are absent.
C1_RuleBasedPathNeverThrows ==
    (result # Idle /\ NoAgentScore) =>
        /\ result.status = "returned"
        /\ result.compatibility_score \in Int
        /\ result.detected_conflicts \in Seq({conflict_budget_disparity,
                                              conflict_lifestyle_mismatch,
                                              conflict_guest_policy})

\* C2: the rule-based outcome for (A, B) equals the one for (B, A): the same
\* score and the same conflicts (and the same failure, where the path fails).
C2_Symmetry ==
    (result # Idle /\ NoAgentScore) =>
        LET swapped == score_compatibility(profile_b, profile_a, resp)
        IN  /\ swapped.status = result.status
            /\ result.status = "returned" =>
                  /\ swapped.compatibility_score = result.compatibility_score
                  /\ swapped.detected_conflicts = result.detected_conflicts

C2_Witness ==
    /\ RuleReturned
    /\ budgets_present(profile_a, profile_b)
    /\ Val(profile_a.budget_PKR) < Val(profile_b.budget_PKR)
    /\ result.compatibility_score < 100 - LifestyleDeduction
    /\ Len(result.detected_conflicts) = 1

\* C3: every returned compatibility_score, on the agent path and on the
\* rule-based path, lies in 0..100.
C3_ScoreBounds ==
    result.status = "returned" =>
        /\ result.compatibility_score \in Int
        /\ 0 <= result.compatibility_score
        /\ result.compatibility_score <= 100

C3_Witness ==
    /\ result.status = "returned"
    /\ result.path = "agent"
    /\ result.compatibility_score = 100
    /\ result.detected_conflicts # <<>>

\* C4 as stated: with both budgets present (not both zero) the deduction is
\* min(round(|a - b| / max(a, b) * 100), 20).
C4_RoundedDeduction ==
    (result # Idle /\ NoAgentScore
        /\ profile_a.budget_PKR # None /\ profile_b.budget_PKR # None
        /\ Max(Val(profile_a.budget_PKR), Val(profile_b.budget_PKR)) > 0) =>
        /\ result.status = "returned"
        /\ applied_budget_deduction =
              Min(percent_rounded(budget_diff(profile_a, profile_b),
                                  max_budget(profile_a, profile_b)), 20)

\* C4 as amended: with both budgets present and non-zero the rule-based path
\* returns and the deduction is min(floor(|a - b| / max(a, b) * 100), 20); a
\* returned rule-based score carries no budget deduction when a budget is absent
\* or zero; budgets 24000 and 30000 give 20.
C4_TruncatedDeduction ==
    (result # Idle /\ NoAgentScore) =>
        /\ budgets_present(profile_a, profile_b) =>
              /\ result.status = "returned"
              /\ applied_budget_deduction =
                    Min((budget_diff(profile_a, profile_b) * 100)
                            \div Max(Val(profile_a.budget_PKR), Val(profile_b.budget_PKR)),
                        20)
              /\ ({Val(profile_a.budget_PKR), Val(profile_b.budget_PKR)} = {24000, 30000}
                    => applied_budget_deduction = 20)
        /\ (~budgets_present(profile_a, profile_b) /\ result.status = "returned") =>
              applied_budget_deduction = 0

C4_Witness ==
    /\ RuleReturned
    /\ profile_a.budget_PKR = Some(25000)
    /\ profile_b.budget_PKR = Some(30000)
    /\ applied_budget_deduction = 16

\* the flags of one type in a conflicts list
FlagsOfType(flags, type) == {k \in 1..Len(flags) : flags[k].type = type}
HasFlag(flags, type) == FlagsOfType(flags, type) # {}

\* the two profiles agree on every attribute the scorer reads
SameAttributes ==
    /\ profile_a.budget_PKR = profile_b.budget_PKR
    /\ profile_a.sleep_schedule = profile_b.sleep_schedule
    /\ profile_a.noise_tolerance = profile_b.noise_tolerance
    /\ profile_a.security_requirement = profile_b.security_requirement

\* C12: on the rule-based path two profiles identical in every attribute get
\* score 100 and an empty conflicts list.
C12_IdenticalProfilesScore100 ==
    (result # Idle /\ NoAgentScore /\ SameAttributes) =>
        /\ result.status = "returned"
        /\ result.compatibility_score = 100
        /\ result.detected_conflicts = <<>>

C12_Witness ==
    /\ RuleReturned
    /\ SameAttributes
    /\ profile_a.budget_PKR = Some(24000)
    /\ lifestyle_of(profile_a) = Some("social")
    /\ guests_of(profile_a) = Some("no_overnight_guests")
    /\ result.compatibility_score = 100

\* the derived lifestyles of the two profiles are both known and differ
LifestylesDiffer ==
    /\ lifestyle_of(profile_a) # None
    /\ lifestyle_of(profile_b) # None
    /\ lifestyle_of(profile_a) # lifestyle_of(profile_b)

\* C13: whenever the derived lifestyles differ the rule-based path deducts 30
\* and reports exactly one lifestyle_mismatch flag, severity "high", confidence
\* 85; when they agree there is no lifestyle deduction and no such flag.
C13_LifestyleRule ==
    (result # Idle /\ NoAgentScore) =>
        /\ LifestylesDiffer =>
              /\ result.status = "returned"
              /\ 100 - result.compatibility_score
                    = 30 + budget_deduction(profile_a, profile_b)
                         + guests_deduction(guests_of(profile_a), guests_of(profile_b))
              /\ Cardinality(FlagsOfType(result.detected_conflicts,
                                         "lifestyle_mismatch")) = 1
              /\ \A k \in FlagsOfType(result.detected_conflicts, "lifestyle_mismatch") :
                    /\ result.detected_conflicts[k].severity = "high"
                    /\ result.detected_conflicts[k].confidence = 85
        /\ (~LifestylesDiffer /\ result.status = "returned") =>
              /\ 100 - result.compatibility_score
                    = budget_deduction(profile_a, profile_b)
                      + guests_deduction(guests_of(profile_a), guests_of(profile_b))
              /\ ~HasFlag(result.detected_conflicts, "lifestyle_mismatch")

\* the guest policy the rule derives from a security_requirement text
claimed_guests_policy(text) ==
    IF Contains(text, s_female_only_high_security) THEN "no_overnight_guests"
    ELSE IF Contains(text, s_flexible_mixed_housing_ok) THEN "open_to_guests"
    ELSE "moderate"

BothCarrySecurityText ==
    /\ profile_a.security_requirement # None
    /\ profile_b.security_requirement # None

\* C18: when both profiles carry security_requirement text the derived policies
\* follow the keyword rule, and 25 points are deducted and one guest_policy flag
\* with confidence 80 is reported if and only if the two policies differ.
C18_GuestPolicyRule ==
    (result # Idle /\ NoAgentScore /\ BothCarrySecurityText) =>
        LET a_policy == claimed_guests_policy(Val(profile_a.security_requirement))
            b_policy == claimed_guests_policy(Val(profile_b.security_requirement))
            guests_part == 100 - result.compatibility_score
                           - budget_deduction(profile_a, profile_b)
                           - lifestyle_deduction(lifestyle_of(profile_a),
                                                 lifestyle_of(profile_b))
        IN  /\ guests_of(profile_a) = Some(a_policy)
            /\ guests_of(profile_b) = Some(b_policy)
            /\ result.status = "returned"
            /\ guests_part = (IF a_policy # b_policy THEN 25 ELSE 0)
            /\ HasFlag(result.detected_conflicts, "guest_policy") <=> a_policy # b_policy
            /\ \A k \in FlagsOfType(result.detected_conflicts, "guest_policy") :
                  result.detected_conflicts[k].confidence = 80

\* C19 as stated: with both budgets present, budget_disparity (confidence 88)
\* is reported exactly when |budget_a - budget_b| > 10000 or the budget
\* deduction exceeds 10.
C19_DisparityThresholds ==
    (result # Idle /\ NoAgentScore
        /\ profile_a.budget_PKR # None /\ profile_b.budget_PKR # None) =>
        /\ result.status = "returned"
        /\ HasFlag(result.detected_conflicts, "budget_disparity")
              <=> \/ Abs(Val(profile_a.budget_PKR) - Val(profile_b.budget_PKR)) > 10000
                  \/ applied_budget_deduction > 10
        /\ \A k \in FlagsOfType(result.detected_conflicts, "budget_disparity") :
              result.detected_conflicts[k].confidence = 88

\* the smaller budget is less than half the larger one
OverHalfApart ==
    2 * Min(Val(profile_a.budget_PKR), Val(profile_b.budget_PKR))
        < Max(Val(profile_a.budget_PKR), Val(profile_b.budget_PKR))

\* C19 as amended: with both budgets present and non-zero the rule-based path
\* returns, and budget_disparity (severity "high", confidence 88) is reported
\* exactly when the budgets differ by more than 50% of the larger one; a
\* returned list carries no budget_disparity when a budget is absent or zero.
C19_DisparityOverHalf ==
    (result # Idle /\ NoAgentScore) =>
        /\ budgets_present(profile_a, profile_b) =>
              /\ result.status = "returned"
              /\ HasFlag(result.detected_conflicts, "budget_disparity") <=> OverHalfApart
              /\ \A k \in FlagsOfType(result.detected_conflicts, "budget_disparity") :
                    /\ result.detected_conflicts[k].severity = "high"
                    /\ result.detected_conflicts[k].confidence = 88
        /\ (~budgets_present(profile_a, profile_b) /\ result.status = "returned") =>
              ~HasFlag(result.detected_conflicts, "budget_disparity")

C19_Witness ==
    /\ RuleReturned
    /\ profile_a.budget_PKR = Some(10000)
    /\ profile_b.budget_PKR = Some(30000)
    /\ HasFlag(result.detected_conflicts, "budget_disparity")

\* the place of a flag type in the fixed order of the rules
RuleOrder(type) ==
    CASE type = "budget_disparity" -> 1
      [] type = "lifestyle_mismatch" -> 2
      [] type = "guest_policy" -> 3
      [] OTHER -> 0

\* C20: in every conflicts list the rule-based path returns no flag type occurs
\* twice, the flags are in the order budget_disparity, lifestyle_mismatch,
\* guest_policy, and each flag is present exactly when its own condition holds,
\* whatever the other rules do.
C20_FlagsOrderedIndependent ==
    RuleReturned =>
        LET flags == result.detected_conflicts
            a_lifestyle == lifestyle_of(profile_a)
            b_lifestyle == lifestyle_of(profile_b)
            a_guests == guests_of(profile_a)
            b_guests == guests_of(profile_b)
        IN  /\ \A k \in 1..Len(flags) : RuleOrder(flags[k].type) \in 1..3
            /\ \A j, k \in 1..Len(flags) :
                  j < k => RuleOrder(flags[j].type) < RuleOrder(flags[k].type)
            /\ HasFlag(flags, "budget_disparity")
                  <=> (budgets_present(profile_a, profile_b) /\ OverHalfApart)
            /\ HasFlag(flags, "lifestyle_mismatch")
                  <=> (a_lifestyle # None /\ b_lifestyle # None
                         /\ a_lifestyle # b_lifestyle)
            /\ HasFlag(flags, "guest_policy")
                  <=> (a_guests # None /\ b_guests # None /\ a_guests # b_guests)

C20_Witness ==
    /\ RuleReturned
    /\ Len(result.detected_conflicts) = 3
    /\ result.compatibility_score = 25

\* C24: a schema-valid agent analysis is returned unchanged, score and
\* conflicts, for every score in 0..100, and the rule-based recalculation runs
\* only when the agent produced no score (validation error or no output).
C24_AgentAnalysisReturnedUnchanged ==
    result # Idle =>
        /\ resp.kind = "output" =>
              /\ result.status = "returned"
              /\ result.compatibility_score = resp.compatibility_score
              /\ result.detected_conflicts = resp.detected_conflicts
        /\ (result.status = "returned" /\ result.path = "rule") =>
              \/ resp.kind = "no_output"
              \/ (resp.kind = "raise" /\ resp.exc = "ValidationError")

\* C25: in every result of the rule-based path the score is 100 minus a budget
\* deduction in 0..20, minus 30 if lifestyle_mismatch is reported, minus 25 if
\* guest_policy is reported; budget_disparity is reported only with a budget
\* deduction of 20; a score of 100 comes with no conflicts; the score is at
\* least 25.
C25_ScoreMatchesConflicts ==
    RuleReturned =>
        LET flags == result.detected_conflicts
            budget_part ==
                100 - result.compatibility_score
                - (IF HasFlag(flags, "lifestyle_mismatch") THEN 30 ELSE 0)
                - (IF HasFlag(flags, "guest_policy") THEN 25 ELSE 0)
        IN  /\ budget_part \in 0..20
            /\ HasFlag(flags, "budget_disparity") => budget_part = 20
            /\ result.compatibility_score = 100 => flags = <<>>
            /\ result.compatibility_score >= 25

C25_Witness ==
    /\ RuleReturned
    /\ result.compatibility_score = 29
    /\ Len(result.detected_conflicts) = 2
    /\ ~HasFlag(result.detected_conflicts, "budget_disparity")

----------------------------------------------------------------------------
(* Properties of run_full_pipeline and its runners *)

\* the conflicts a compatibility result carries, if it carries any
ConflictsOf(c) ==
    IF "detected_conflicts" \in DOMAIN c THEN Some(c.detected_conflicts) ELSE None

SameInput(i, j) ==
    /\ pipeline_runs[i].profile_a = pipeline_runs[j].profile_a
    /\ pipeline_runs[i].profile_b = pipeline_runs[j].profile_b

\* C11: two calls with identical input return identical detected conflicts,
\* identical red flags and identical advice, whatever the external agent calls
\* did in either of them.
C11_RepeatedCallsAgree ==
    \A i, j \in 1..Len(pipeline_runs) :
        SameInput(i, j) =>
            /\ ConflictsOf(pipeline_runs[i].returned.compatibility)
                  = ConflictsOf(pipeline_runs[j].returned.compatibility)
            /\ pipeline_runs[i].returned.red_flags = pipeline_runs[j].returned.red_flags
            /\ pipeline_runs[i].returned.advice = pipeline_runs[j].returned.advice

FlagWellFormed(flag) ==
    /\ flag.severity \in {"low", "high", "critical"}
    /\ flag.confidence \in 0..100

\* C14: every flag in the detected_conflicts of a returned compatibility
\* result (agent path or rule-based path) and every flag in the red_flags of
\* run_red_flag_agent has severity low, high or critical and confidence 0..100.
C14_FlagsWellFormed ==
    /\ (compatibility # Idle /\ ConflictsOf(compatibility) # None) =>
          \A k \in 1..Len(compatibility.detected_conflicts) :
              FlagWellFormed(compatibility.detected_conflicts[k])
    /\ red_flags # Idle =>
          \A k \in 1..Len(red_flags.red_flags) : FlagWellFormed(red_flags.red_flags[k])

\* the score tier that keys the opening sentence of the advice
ScoreTier(score) ==
    IF score >= 80 THEN "great match"
    ELSE IF score >= 60 THEN "promising with caveats"
    ELSE "challenging, needs communication"

HasScoreAndAdvice(run) ==
    /\ "compatibility_score" \in DOMAIN run.returned.compatibility
    /\ "advice" \in DOMAIN run.returned.advice

\* C16: the advice opens with the sentence of the match's score tier, so two
\* matches whose scores lie in different tiers get different advice text.
C16_AdviceKeyedByTier ==
    \A i, j \in 1..Len(pipeline_runs) :
        (HasScoreAndAdvice(pipeline_runs[i]) /\ HasScoreAndAdvice(pipeline_runs[j])
            /\ ScoreTier(pipeline_runs[i].returned.compatibility.compatibility_score)
                  # ScoreTier(pipeline_runs[j].returned.compatibility.compatibility_score))
        => pipeline_runs[i].returned.advice.advice # pipeline_runs[j].returned.advice.advice

StageHasRun(v) == v # Idle

\* a compatibility-stage outcome as the pipeline stores it: a scored result or
\* the failure as {"error": ...}
CompatibilityOrError(c) ==
    \/ ("error" \in DOMAIN c /\ DOMAIN c = {"error"})
    \/ ("compatibility_score" \in DOMAIN c /\ c.status = "returned")

\* C28: run_full_pipeline runs its stages in the order compatibility, red
\* flags, advice, and every call, whatever the compatibility stage did (a
\* failure appears as {"error": ...}), returns the three keys compatibility,
\* red_flags and advice with the two later stages run.
C28_PipelineRunsAllStages ==
    /\ pipeline_pc \in {"red_flags", "advice", "return"} =>
          (StageHasRun(compatibility) /\ CompatibilityOrError(compatibility))
    /\ pipeline_pc = "compatibility" =>
          (~StageHasRun(compatibility) /\ ~StageHasRun(red_flags) /\ ~StageHasRun(advice))
    /\ StageHasRun(red_flags) => StageHasRun(compatibility)
    /\ StageHasRun(advice) => StageHasRun(red_flags)
    /\ \A k \in 1..Len(pipeline_runs) :
          LET returned == pipeline_runs[k].returned
          IN  /\ DOMAIN returned = {"compatibility", "red_flags", "advice"}
              /\ CompatibilityOrError(returned.compatibility)
              /\ "red_flags" \in DOMAIN returned.red_flags
              /\ StageHasRun(returned.advice)

C28_Witness ==
    /\ Len(pipeline_runs) >= 1
    /\ pipeline_runs[1].returned.compatibility = [error |-> "UnboundLocalError"]
    /\ "red_flags" \in DOMAIN pipeline_runs[1].returned.red_flags
    /\ "advice" \in DOMAIN pipeline_runs[1].returned.advice

----------------------------------------------------------------------------
(* Properties of infer_lifestyle *)

\* the lifestyle the rule gives for a sleep_schedule and a noise_tolerance
claimed_lifestyle(sleep, noise) ==
    IF sleep = Some(s_night_owl) \/ noise = Some(s_high) THEN "social"
    ELSE IF sleep = Some(s_early) \/ noise = Some(s_low) THEN "quiet"
    ELSE "relaxed"

EnumOrNull(v, c) == v = None \/ (v # None /\ Val(v) \in Canonical(c))

\* C17 as stated: for every sleep_schedule and noise_tolerance, each a value
\* of its enum or null, infer_lifestyle returns the lifestyle of the rule.
C17_LifestyleRuleTotal ==
    (inferred # Idle /\ inferred.of = "lifestyle"
        /\ EnumOrNull(infer_sleep, "sleep_schedule")
        /\ EnumOrNull(infer_noise, "noise_tolerance")) =>
        inferred.value = Some(claimed_lifestyle(infer_sleep, infer_noise))

\* C17 as amended: when sleep_schedule or noise_tolerance is null or empty
\* infer_lifestyle returns null; when both are values of their enums it
\* returns the lifestyle of the rule.
C17_LifestyleRuleWhenBothKnown ==
    (inferred # Idle /\ inferred.of = "lifestyle") =>
        IF infer_sleep \in {None, Some(<<>>)} \/ infer_noise \in {None, Some(<<>>)}
        THEN inferred.value = None
        ELSE inferred.value = Some(claimed_lifestyle(infer_sleep, infer_noise))

C17_Witness ==
    /\ inferred # Idle
    /\ inferred.of = "lifestyle"
    /\ infer_sleep = Some(s_early)
    /\ infer_noise = Some(s_high)
    /\ inferred.value = Some("social")

----------------------------------------------------------------------------
(* Properties of the normalizers *)

\* C6: for every category, normalizing None and normalizing "" both give None,
\* and every string input is answered (no raise) with None or a canonical value
\* of the category.
C6_NormalizerTotality ==
    normalized # Idle =>
        /\ normalized.status = "returned"
        /\ (value = None \/ value = Some(<<>>)) => normalized.value = None
        /\ normalized.value = None \/ Val(normalized.value) \in Canonical(category)

C6_Witness ==
    /\ normalized # Idle
    /\ value = Some(<<>>)
    /\ normalized.value = None

\* C5: re-normalizing a canonical value returns it unchanged, so every canonical
\* sleep_schedule, cleanliness and noise_tolerance the agent produced is still
\* in the profile extract_structured_profile returns.
C5_CanonicalValuesKept ==
    (extracted # Idle /\ agent_run.kind = "output") =>
        \A c \in Categories :
            (agent_run.output[c] # None /\ Val(agent_run.output[c]) \in Canonical(c)) =>
                Get(extracted.profile_dict, c) = agent_run.output[c]

\* the keyword table of a category: rules in order, each a set of keywords
\* and the canonical value they stand for
KeywordTable(c) ==
    CASE c = "sleep_schedule" ->
            <<[keywords |-> {s_night, s_late, s_raat, s_1am}, canonical |-> s_night_owl],
              [keywords |-> {s_early, s_subah, s_riser}, canonical |-> s_early],
              [keywords |-> {s_flexible, s_chill}, canonical |-> s_flexible]>>
      [] c = "cleanliness" ->
            <<[keywords |-> {s_tidy, s_saaf}, canonical |-> s_high],
              [keywords |-> {s_messy, s_ganda}, canonical |-> s_low]>>
      [] c = "noise_tolerance" ->
            <<[keywords |-> {s_quiet, s_shor_kam}, canonical |-> s_low],
              [keywords |-> {s_moderate, s_average}, canonical |-> s_medium],
              [keywords |-> {s_loud, s_shor_zyada, s_high}, canonical |-> s_high]>>

CategoryDefault(c) == IF c = "sleep_schedule" THEN s_normal ELSE s_medium

RuleMatches(rule, str) == \E kw \in rule.keywords : Contains(Lower(str), kw)

\* the canonical value of the first rule of the table that matches, the
\* category default if none does
FirstMatch(str, c) ==
    LET table == KeywordTable(c)
        hits == {k \in 1..Len(table) : RuleMatches(table[k], str)}
    IN  IF hits = {} THEN CategoryDefault(c)
        ELSE table[CHOOSE k \in hits : \A h \in hits : k <= h].canonical

\* C21: in profile_reader.py and in tools/profile_proccesor.py a non-empty
\* value normalizes to the canonical value of the first rule, in table order,
\* one of whose keywords it contains case-insensitively, and to the category
\* default when no rule matches.
C21_FirstMatchingRuleWins ==
    (normalized # Idle /\ normalized.copy \in {"profile_reader", "tools"}
        /\ TruthyStr(value)) =>
        normalized.value = Some(FirstMatch(Val(value), category))

\* C22: for every value and category the three copies of the normalizers
\* return the same canonical value.
C22_CopiesAgree ==
    normalized # Idle =>
        \A copy \in NormalizerCopies :
            normalize_in(copy, value, category) = normalized.value

----------------------------------------------------------------------------
(* Properties of run_profile_reader *)

AllHaveId(records) ==
    \A k \in 1..Len(records) : TruthyStr(Get(records[k], "id"))

\* C7: no profile record that run_profile_reader returns or writes to the output
\* file has a missing or empty id, also when the extraction agent call failed.
C7_NoRecordWithoutId ==
    /\ reader_returned # None => AllHaveId(Val(reader_returned))
    /\ profiles_datas_json # None => AllHaveId(Val(profiles_datas_json))

\* budget_PKR of a record is null (or not set) or a non-negative integer
BudgetWellFormed(record) ==
    LET budget == Get(record, "budget_PKR")
    IN  budget = None \/ (Val(budget) \in Int /\ Val(budget) >= 0)

\* C15: in every profile run_profile_reader returns or writes, budget_PKR is
\* null or a non-negative integer, whatever the agent returned and whatever
\* the raw record holds.
C15_BudgetNonNegative ==
    /\ reader_returned # None =>
          \A k \in 1..Len(Val(reader_returned)) :
              BudgetWellFormed(Val(reader_returned)[k])
    /\ profiles_datas_json # None =>
          \A k \in 1..Len(Val(profiles_datas_json)) :
              BudgetWellFormed(Val(profiles_datas_json)[k])

\* the inputs run_profile_reader can process: both keys are there
Processable(raw) ==
    {k \in 1..Min(Len(raw), BatchLimit) :
        "id" \in DOMAIN raw[k] /\ "raw_profile_text" \in DOMAIN raw[k]}

\* C29: whatever fails for single raw profiles (agent error, missing
\* raw_profile_text, missing id), run_profile_reader still processes the others
\* and writes the output: the returned list is the written one, holds at most
\* one entry per processable input of the first 10, and is not empty when
\* there is a processable input.
C29_FailuresAreIsolated ==
    (reader_pc = "returned" /\ data_json # None) =>
        /\ profiles_datas_json # None
        /\ profiles_datas_json = reader_returned
        /\ Len(Val(reader_returned)) <= Cardinality(Processable(Val(data_json)))
        /\ Processable(Val(data_json)) # {} => Val(reader_returned) # <<>>

----------------------------------------------------------------------------
(* Properties of parse_single_profile *)

\* C8: two distinct invocations of parse_single_profile never produce profiles
\* with the same id, whenever and however interleaved they run.
C8_UniqueProfileIds ==
    \A i, j \in Invocations :
        (i # j /\ parse_outcome[i].status = "returned"
               /\ parse_outcome[j].status = "returned") =>
            parse_outcome[i].profile.id # parse_outcome[j].profile.id

----------------------------------------------------------------------------
(* Properties of score_all_combinations and of the ranking in __main__ *)

\* the index pairs (i, j) with i < j of a population of n, in increasing order
RECURSIVE PairsFrom(_, _, _)
PairsFrom(i, j, n) ==
    IF i >= n THEN <<>>
    ELSE IF j > n THEN PairsFrom(i + 1, i + 2, n)
    ELSE <<<<i, j>>>> \o PairsFrom(i, j + 1, n)
IndexPairs(n) == PairsFrom(1, 2, n)

BatchEnded == batch_pc \in {"returned", "raised"}

\* C9: for a population of N profiles the call ends by returning one result per
\* index pair i < j, N*(N-1)/2 results in increasing (i, j) order, no pair twice
\* and no profile against itself.
C9_OneResultPerPair ==
    (BatchEnded /\ profiles_json # None) =>
        /\ batch_outcome.status = "returned"
        /\ batch_outcome.pairs = IndexPairs(Len(Val(profiles_json)))
        /\ Len(batch_outcome.results) =
              (Len(Val(profiles_json)) * (Len(Val(profiles_json)) - 1)) \div 2

\* a list with one scored result for each of the pairs of the population
CompleteResults(list) ==
    /\ profiles_json # None
    /\ Len(list) = (Len(Val(profiles_json)) * (Len(Val(profiles_json)) - 1)) \div 2
    /\ \A k \in 1..Len(list) : "compatibility_score" \in DOMAIN list[k]

RankingLimit == 3

\* C10: when __main__ ends it has printed the batch results ranked: sorted by
\* score in descending order, equal scores in their original order, at most
\* three of them.
C10_RankedOutput ==
    (caller = "__main__" /\ caller_pc \in {"done", "crashed"}
        /\ profiles_json # None /\ Len(Val(profiles_json)) >= 2) =>
        /\ caller_pc = "done"
        /\ Len(printed) >= 1
        /\ Len(printed) <= RankingLimit
        /\ \A k \in 1..(Len(printed) - 1) :
              \/ printed[k].compatibility_score > printed[k + 1].compatibility_score
              \/ /\ printed[k].compatibility_score = printed[k + 1].compatibility_score
                 /\ printed[k].position < printed[k + 1].position

----------------------------------------------------------------------------
(* Properties of the upload page and the results page *)

\* C23: no destination path in the uploads directory is written twice: an
\* upload never overwrites a file that is already there, and two uploads,
\* of one session or of two, never write to the same path.
C23_NoSharedDestination ==
    \A path \in DOMAIN uploads_dir : Len(uploads_dir[path]) <= 1

\* the step in which session s leaves parse_docx_profile and the upload page
\* renders its outcome
UploadPageEnds(s) == upload_pc[s] = "parse" /\ upload_pc'[s] = "idle"

\* C26: an upload during which the extraction agent failed ends in the error
\* outcome with parsed_data and raw_text as they were before, and an upload
\* that ends in the success outcome has stored a structured profile that
\* carries the generated profile id.
C26_AgentFailureIsAnError ==
    [][\A s \in Sessions :
          UploadPageEnds(s) =>
              /\ page_outcome'[s].agent = "raise" =>
                    (page_outcome'[s].outcome = "error"
                     /\ session_state'[s] = session_state[s])
              /\ page_outcome'[s].outcome = "success" =>
                    (/\ session_state'[s].parsed_data # None
                     /\ Get(Val(session_state'[s].parsed_data), "id")
                           = Some(uuid4(s, uploads_made[s])))]_vars

\* C30: in every session parsed_data is None exactly when raw_text is None,
\* and the results page shows data only when parsed_data is not None, and
\* then the data stored there.
C30_SessionKeysSetTogether ==
    \A s \in Sessions :
        /\ (session_state[s].parsed_data = None) <=> (session_state[s].raw_text = None)
        /\ (upload_pc[s] = "idle" /\ page_outcome[s].page = "results"
            /\ page_outcome[s].outcome = "shown") =>
              (/\ session_state[s].parsed_data # None
               /\ page_outcome[s].data = Val(session_state[s].parsed_data))

C30_Witness ==
    \E s \in Sessions :
        /\ session_state[s].parsed_data # None
        /\ session_state[s].raw_text = Some(s_text)
        /\ uploads_made[s] = 2
        /\ page_outcome[s].page = "results"
        /\ page_outcome[s].outcome = "shown"

====
